---- MODULE Spec2Model ----
(***************************************************************************)
(* karma-test-utils: the subscription counter (TestSubscriptionCounter)    *)
(* and the synchronous observable readers (read-observable-synchronously), *)
(* over one replayable multicast source, as AutoMockerPlus builds it.      *)
(***************************************************************************)
EXTENDS Integers, Sequences, FiniteSets

\* ------------------------------------------------------------------ bounds
\* Subscriptions ever opened on the counted stream.
MaxSubs == 2
\* Largest replay buffer of the source (0 = plain Subject).
MaxReplay == 2
\* Largest skips argument given to a reader.
MaxSkips == 1

\* ------------------------------------------------------------------ values
\* JavaScript values, written as their literals.
Falsy == {"undefined", "null", "0", "false", "''"}
Truthy == {"'test'"}

\* `if (x)` / `!!x`
IsTruthy(v) == v \notin Falsy

\* String(v), as a template literal or the Error constructor applies it
JsString(v) ==
    CASE v = "''" -> ""
      [] v = "'test'" -> "test"
      [] OTHER -> v

\* new Error(payload): the message is String(payload); an undefined message is
\* left unset, which reads as the empty string.
NewError(payload) ==
    [type |-> "Error", message |-> IF payload = "undefined" THEN "" ELSE JsString(payload)]

VARIABLES
    falsyVal,     \* the falsy literal this test run emits (next to the truthy one)
    bufSize,      \* the source's replay buffer size (ReplaySubject(bufSize))
    buffer,       \* the source's replay buffer
    stopped,      \* "no" | "complete" | "error": the source's terminal state
    thrownError,  \* the payload the source errored with
    subs,         \* every subscription opened on countedObservable$, in order
    lifetime,     \* TestSubscriptionCounter._lifetimeSubscriptionCount
    active,       \* TestSubscriptionCounter._activeSubscriptionCount
    pc,           \* "idle" | "action": inside readObservableSynchronouslyAfterAction's action()
    rsub,         \* index in subs of the running reader's subscription (0: none)
    actionCalls,  \* how often the running reader has invoked action()
    outcome       \* what the last reader call returned or threw

\* The class handed to AutoMocker.mockClass and the mock it returns.
VARIABLES
    chain,        \* ctor's prototype chain below Object, most-derived level first
    options,      \* the options mockClass was called with (called: FALSE before the call)
    memberData,   \* what getMemberData(ctor) returned
    mock          \* the object mockClass returned: what each name holds on it

\* One function handed to the spy helpers, and what the last helper or call did.
VARIABLES
    target,       \* the function: a jasmine spy (strategies, calls) or a plain function
    configured,   \* what the last helper that set the base strategy was handed
    invocations,  \* invocations of the spy since its creation or its last resetSpy
    result        \* what the last helper call or spy call returned or threw

\* The object handed to AutoMocker.mock and what mock made of it.
VARIABLES
    obj,          \* objectToMock: its properties in key order, each a value
    ctorDepth,    \* the maxDepth the AutoMocker was constructed with
    depthArg,     \* the maxDepth argument of the call of mock (given: FALSE if omitted)
    mocked        \* the object after mock (done: FALSE before the call)

\* A stream that a helper of AutoMockerPlus created, and its subscribers.
VARIABLES
    helperCall,   \* the helper that created the stream and what it was handed
    subject,      \* the ReplaySubject the helper returned: buffer size and buffer
    pushed,       \* every value pushed into the subject so far, in order
    observers     \* the subscribers of target[prop]: what each has received

readerVars == <<falsyVal, bufSize, buffer, stopped, thrownError, subs, lifetime, active, pc,
                rsub, actionCalls, outcome>>
classVars == <<chain, options, memberData, mock>>
spyVars == <<target, configured, invocations, result>>
objVars == <<obj, ctorDepth, depthArg, mocked>>
plusVars == <<helperCall, subject, pushed, observers>>

vars == <<readerVars, classVars, spyVars, objVars, plusVars>>

\* ---------------------------------------------------------------------------
\* States of the mocker and of the spy before anything was done with them
\* ---------------------------------------------------------------------------

\* The member names a class of the model can declare.
Names == {"a", "b"}

\* Nothing installed under a name of the mock.
NoMember == [kind |-> "none", hasGet |-> FALSE, hasSet |-> FALSE, calls |-> 0,
             enumerable |-> FALSE]

\* mockClassOptionsDefaults, and no call of mockClass yet.
NoOptions == [called |-> FALSE, additionalMethodsToMock |-> <<>>, ignoredProperties |-> {},
              ignoreAllProperties |-> FALSE]

\* const methodNames = []; const definedPropertiesData = [];
EmptyMemberData == [methodNames |-> <<>>, definedPropertiesData |-> <<>>]

\* ({} as T)
EmptyMock == [n \in Names |-> NoMember]

ClassIdle ==
    /\ chain = <<>>
    /\ options = NoOptions
    /\ memberData = EmptyMemberData
    /\ mock = EmptyMock

\* The plan a fresh jasmine spy executes: and.stub(), which returns undefined.
StubPlan == [plan |-> "stub", value |-> "undefined", values |-> <<>>, map |-> <<>>]

\* No spy.withArgs(...) strategy is registered.
NoArgsStrategy == [on |-> FALSE, args |-> <<>>, value |-> "undefined"]

\* What the helpers are handed: jasmine.createSpy() (kind "spy", it has .calls), or
\* a function that is no spy (kind "function": () => {}).
NewTarget(kind) == [kind |-> kind, and |-> StubPlan, withArgs |-> NoArgsStrategy, calls |-> 0]

\* the model's record of the last helper that set the spy's base strategy: which
\* one (by), what it was handed, and how many calls the spy got since
NotConfigured == [by |-> "none", values |-> <<>>, map |-> [k \in {} |-> "undefined"],
                  default |-> "undefined", since |-> 0]

NoResult == [t |-> "none", helper |-> "none", label |-> "undefined", caller |-> "none",
             spyName |-> "none", v |-> "undefined", count |-> 0, args |-> <<>>,
             list |-> <<>>]

SpyIdle ==
    /\ target = NewTarget("function")
    /\ configured = NotConfigured
    /\ invocations = 0
    /\ result = NoResult

\* no maxDepth argument: mock(objectName, objectToMock)
NoDepthArg == [given |-> FALSE, n |-> 0]

\* mock has not run
NotMocked == [done |-> FALSE, props |-> <<>>]

ObjIdle ==
    /\ obj = <<>>
    /\ ctorDepth = 1
    /\ depthArg = NoDepthArg
    /\ mocked = NotMocked

\* no helper of AutoMockerPlus has created a stream
NoHelperCall == [helper |-> "none", value |-> "undefined", n |-> 0]

\* no ReplaySubject
NoSubject == [bufferSize |-> 0, buffer |-> <<>>]

PlusIdle ==
    /\ helperCall = NoHelperCall
    /\ subject = NoSubject
    /\ pushed = <<>>
    /\ observers = <<>>

\* The values and error payloads a run sends through the source. The code never
\* compares two payloads, it only tests one for truthiness, so a run draws from
\* one falsy literal (any of the five) and the truthy one.
Vals == {falsyVal} \cup Truthy

\* ------------------------------------------------------------ the counter
lifetimeSubscriptionCount == lifetime
activeSubscriptionCount == active
hadSubscribers == lifetimeSubscriptionCount > 0
hasSubscribers == activeSubscriptionCount > 0
allSubscriptionsFinalized == activeSubscriptionCount = 0

\* ---------------------------------------------------------- subscriptions
\* One subscription on the counted stream. A consumer's observer ignores what
\* it is sent; a reader's subscription carries the reader's pipeline
\* (tap/skip/take) and the locals its observer closes over.
NewSub(owner, kind, skips) ==
    [owner |-> owner, kind |-> kind, open |-> TRUE, skips |-> skips,
     emissionCount |-> 0, skipIndex |-> 0, emitted |-> FALSE, nextVal |-> "undefined",
     errVal |-> "undefined", actualComplete |-> FALSE]

Next_(v) == [t |-> "next", v |-> v]
Error_(e) == [t |-> "error", v |-> e]
Complete_ == [t |-> "complete", v |-> "undefined"]

\* the observers the three readers subscribe with
ObserverNext(s, v) ==
    CASE s.kind = "value" -> [s EXCEPT !.nextVal = v, !.emitted = TRUE]
      [] s.kind = "error" -> [s EXCEPT !.nextVal = v]
      [] s.kind = "completion" -> [s EXCEPT !.nextVal = v]
      [] OTHER -> s

ObserverError(s, e) ==
    CASE s.kind = "value" -> [s EXCEPT !.errVal = e]
      [] s.kind = "error" -> [s EXCEPT !.errVal = e, !.emitted = TRUE]
      [] s.kind = "completion" -> [s EXCEPT !.errVal = e]
      [] OTHER -> s

ObserverComplete(s) ==
    CASE s.kind = "completion" -> [s EXCEPT !.actualComplete = TRUE, !.emitted = TRUE]
      [] OTHER -> s

Close(s) == [s EXCEPT !.open = FALSE]

\* (mutant) skip(skips), then tap: only the emissions let through are counted
PipeNextTapAfterSkip(s, v) ==
    LET t == [s EXCEPT !.skipIndex = @ + 1]
    IN  IF t.skipIndex > t.skips
        THEN Close(ObserverComplete(ObserverNext([t EXCEPT !.emissionCount = @ + 1], v)))
        ELSE t

\* tap(() => emissionCount++), skip(skips), take(1): skip lets the emissions
\* after its first `skips` through, take(1) completes on the first it is sent
PipeNext(s, v) ==
    LET t == [s EXCEPT !.emissionCount = @ + 1, !.skipIndex = @ + 1]
    IN  IF t.skipIndex > t.skips
        THEN Close(ObserverComplete(ObserverNext(t, v)))
        ELSE t

\* one signal of the source reaching one subscription
Deliver(s, sig) ==
    IF ~s.open THEN s
    ELSE CASE sig.t = "next" ->
                 IF s.owner = "reader" THEN PipeNext(s, sig.v) ELSE s
           [] sig.t = "error" -> Close(ObserverError(s, sig.v))
           [] OTHER -> Close(ObserverComplete(s))

RECURSIVE DeliverAll(_, _)
DeliverAll(s, sigs) ==
    IF sigs = <<>> THEN s
    ELSE DeliverAll(Deliver(s, Head(sigs)), Tail(sigs))

\* what the source sends a new subscriber at once: the replay buffer, then
\* its terminal signal if it has stopped
ReplaySignals ==
    [i \in 1..Len(buffer) |-> Next_(buffer[i])]
    \o (CASE stopped = "error" -> <<Error_(thrownError)>>
          [] stopped = "complete" -> <<Complete_>>
          [] OTHER -> <<>>)

\* (mutant) the decrement runs for every closed subscription, finalized before or not
FinalizeCountRepeated(before, after) ==
    Cardinality({i \in DOMAIN after : ~after[i].open})

\* finalize(() => this._activeSubscriptionCount--): once per subscription that
\* went from open to closed
FinalizeCount(before, after) ==
    Cardinality({i \in DOMAIN before : before[i].open /\ ~after[i].open})

\* (mutant) the active count is raised twice and the lifetime count never
CountedSubscribeNoLifetime(s) ==
    LET s1 == DeliverAll(s, ReplaySignals)
    IN  /\ lifetime' = lifetime
        /\ active' = (active + 2) - FinalizeCount(<<s>>, <<s1>>)
        /\ subs' = Append(subs, s1)

\* countedObservable$'s subscribe function, for one new subscription
CountedSubscribe(s) ==
    LET s1 == DeliverAll(s, ReplaySignals)
    IN  /\ lifetime' = lifetime + 1
        /\ active' = (active + 1) - FinalizeCount(<<s>>, <<s1>>)
        /\ subs' = Append(subs, s1)

\* (mutant) the decrement hangs on complete only, an error does not run it
BroadcastNoErrorFinalize(sig) ==
    LET after == [i \in DOMAIN subs |-> Deliver(subs[i], sig)]
    IN  /\ subs' = after
        /\ active' = active - (IF sig.t = "error" THEN 0 ELSE FinalizeCount(subs, after))
        /\ lifetime' = lifetime

\* a signal of the source reaching every subscription
Broadcast(sig) ==
    LET after == [i \in DOMAIN subs |-> Deliver(subs[i], sig)]
    IN  /\ subs' = after
        /\ active' = active - FinalizeCount(subs, after)
        /\ lifetime' = lifetime

\* (mutant) every unsubscribe call decrements, also of a finalized subscription
UnsubscribeAlwaysDecrements(i) ==
    /\ subs' = [subs EXCEPT ![i] = Close(@)]
    /\ active' = active - 1
    /\ lifetime' = lifetime

\* subscription.unsubscribe()
Unsubscribe(i) ==
    LET after == [subs EXCEPT ![i] = Close(@)]
    IN  /\ subs' = after
        /\ active' = active - FinalizeCount(subs, after)
        /\ lifetime' = lifetime

\* ---------------------------------------------------------------- readers
\* What a reader call did: returned v, or threw an Error whose message is the
\* template msg filled with v, skips and count.
NoOutcome == [op |-> "", t |-> "none", msg |-> "", v |-> "", skips |-> 0, count |-> 0]
Returned(op, skips, v) ==
    [op |-> op, t |-> "return", msg |-> "", v |-> v, skips |-> skips, count |-> 0]
Threw(op, skips, msg, v, count) ==
    [op |-> op, t |-> "throw", msg |-> msg, v |-> v, skips |-> skips, count |-> count]

\* the stream and action arguments a test may pass
Streams == {"stream", "null", "undefined"}
Actions == {"fn", "null", "undefined"}

\* (mutant) the captured value decides, not the emitted flag
ReadValueCheckByValue(op, s) ==
    IF IsTruthy(s.errVal)
    THEN [out |-> Threw(op, s.skips, "${error}", NewError(s.errVal).message, 0),
          unsub |-> FALSE]
    ELSE IF ~IsTruthy(s.nextVal)
    THEN [out |-> Threw(op, s.skips, "observable did not emit (skips requested: ${skips}, total skipped emissions: ${emissionCount})",
                        "", s.emissionCount),
          unsub |-> TRUE]
    ELSE [out |-> Returned(op, s.skips, s.nextVal), unsub |-> FALSE]

\* readObservableSynchronouslyAfterAction, after action() has returned: what it
\* returns or throws, and whether it calls subscription.unsubscribe()
ReadValueCheck(op, s) ==
    IF IsTruthy(s.errVal)
    THEN [out |-> Threw(op, s.skips, "${error}", NewError(s.errVal).message, 0),
          unsub |-> FALSE]
    ELSE IF ~s.emitted
    THEN [out |-> Threw(op, s.skips, "observable did not emit (skips requested: ${skips}, total skipped emissions: ${emissionCount})",
                        "", s.emissionCount),
          unsub |-> TRUE]
    ELSE [out |-> Returned(op, s.skips, s.nextVal), unsub |-> FALSE]

\* (mutant) the failure path throws without unsubscribing
ReadErrorCheckNoUnsubscribe(op, s) ==
    IF IsTruthy(s.nextVal)
    THEN [out |-> Threw(op, s.skips, "${valueReceived}", NewError(s.nextVal).message, 0),
          unsub |-> FALSE]
    ELSE IF ~s.emitted
    THEN [out |-> Threw(op, s.skips, "observable did not emit error (skips requested: ${skips}, total skipped emissions: ${emissionCount}",
                        "", s.emissionCount),
          unsub |-> FALSE]
    ELSE [out |-> Returned(op, s.skips, s.errVal), unsub |-> FALSE]

\* (mutant) the captured payload decides, not the emitted flag
ReadErrorCheckByPayload(op, s) ==
    IF IsTruthy(s.nextVal)
    THEN [out |-> Threw(op, s.skips, "${valueReceived}", NewError(s.nextVal).message, 0),
          unsub |-> FALSE]
    ELSE IF ~IsTruthy(s.errVal)
    THEN [out |-> Threw(op, s.skips, "observable did not emit error (skips requested: ${skips}, total skipped emissions: ${emissionCount}",
                        "", s.emissionCount),
          unsub |-> TRUE]
    ELSE [out |-> Returned(op, s.skips, s.errVal), unsub |-> FALSE]

\* (mutant) the error must arrive after exactly skips values
ReadErrorCheckExactSkips(op, s) ==
    IF IsTruthy(s.nextVal)
    THEN [out |-> Threw(op, s.skips, "${valueReceived}", NewError(s.nextVal).message, 0),
          unsub |-> FALSE]
    ELSE IF ~s.emitted \/ s.emissionCount < s.skips
    THEN [out |-> Threw(op, s.skips, "observable did not emit error (skips requested: ${skips}, total skipped emissions: ${emissionCount}",
                        "", s.emissionCount),
          unsub |-> TRUE]
    ELSE [out |-> Returned(op, s.skips, s.errVal), unsub |-> FALSE]

\* readObservableErrorSynchronously, after subscribing
ReadErrorCheck(op, s) ==
    IF IsTruthy(s.nextVal)
    THEN [out |-> Threw(op, s.skips, "${valueReceived}", NewError(s.nextVal).message, 0),
          unsub |-> FALSE]
    ELSE IF ~s.emitted
    THEN [out |-> Threw(op, s.skips, "observable did not emit error (skips requested: ${skips}, total skipped emissions: ${emissionCount}",
                        "", s.emissionCount),
          unsub |-> TRUE]
    ELSE [out |-> Returned(op, s.skips, s.errVal), unsub |-> FALSE]

\* readObservableCompletionSynchronously, after subscribing
ReadCompletionCheck(op, s) ==
    IF IsTruthy(s.nextVal)
    THEN [out |-> Threw(op, s.skips, "${value}", NewError(s.nextVal).message, 0),
          unsub |-> FALSE]
    ELSE IF IsTruthy(s.errVal)
    THEN [out |-> Threw(op, s.skips, "${error}", NewError(s.errVal).message, 0),
          unsub |-> FALSE]
    ELSE IF ~s.emitted
    THEN [out |-> Threw(op, s.skips, "observable did not complete (skips requested: ${skips}, total skipped emissions: ${emissionCount})",
                        "", s.emissionCount),
          unsub |-> TRUE]
    ELSE [out |-> Returned(op, s.skips, IF s.actualComplete THEN "true" ELSE "undefined"),
          unsub |-> FALSE]

\* a reader's locals are gone once it has returned and its subscription is closed
Forget(s) ==
    IF s.open THEN s
    ELSE [NewSub(s.owner, "none", 0) EXCEPT !.open = FALSE]

\* a reader that takes no action: subscribe, check, return or throw
ReaderRun(op, kind, skips) ==
    LET s0 == NewSub("reader", kind, skips)
        s1 == DeliverAll(s0, ReplaySignals)
        chk == CASE kind = "value" -> ReadValueCheck(op, s1)
                 [] kind = "error" -> ReadErrorCheck(op, s1)
                 [] OTHER -> ReadCompletionCheck(op, s1)
        s2 == IF chk.unsub THEN Close(s1) ELSE s1
    IN  /\ lifetime' = lifetime + 1
        /\ active' = (active + 1) - FinalizeCount(<<s0>>, <<s2>>)
        /\ subs' = Append(subs, Forget(s2))
        /\ outcome' = chk.out

\* if (!observable$) throw new Error(`cannot subscribe to ${observable$}`)
NoStream(op, stream) ==
    /\ stream # "stream"
    /\ outcome' = Threw(op, 0, "cannot subscribe to ${observable$}", JsString(stream), 0)
    /\ UNCHANGED <<subs, lifetime, active>>

\* ------------------------------------------------------------- operations
Init ==
    /\ falsyVal \in Falsy
    /\ bufSize \in 0..MaxReplay
    /\ buffer = <<>>
    /\ stopped = "no"
    /\ thrownError = "undefined"
    /\ subs = <<>>
    /\ lifetime = 0
    /\ active = 0
    /\ pc = "idle"
    /\ rsub = 0
    /\ actionCalls = 0
    /\ outcome = NoOutcome
    /\ ClassIdle
    /\ SpyIdle
    /\ ObjIdle
    /\ PlusIdle

\* a test subscribes to counter.countedObservable$
ConsumerSubscribe ==
    /\ Len(subs) < MaxSubs
    /\ CountedSubscribe(NewSub("consumer", "none", 0))
    /\ outcome' = NoOutcome
    /\ UNCHANGED <<falsyVal, bufSize, buffer, stopped, thrownError, pc, rsub, actionCalls>>

\* a test unsubscribes one of its subscriptions (possibly again)
ConsumerUnsubscribe(i) ==
    /\ subs[i].owner = "consumer"
    /\ Unsubscribe(i)
    /\ outcome' = NoOutcome
    /\ UNCHANGED <<falsyVal, bufSize, buffer, stopped, thrownError, pc, rsub, actionCalls>>

Trim(b) == IF Len(b) > bufSize THEN SubSeq(b, Len(b) - bufSize + 1, Len(b)) ELSE b

\* subject.next(v)
SourceNext(v) ==
    /\ stopped = "no"
    /\ buffer' = Trim(Append(buffer, v))
    /\ Broadcast(Next_(v))
    /\ outcome' = NoOutcome
    /\ UNCHANGED <<falsyVal, bufSize, stopped, thrownError, pc, rsub, actionCalls>>

\* subject.error(e)
SourceError(e) ==
    /\ stopped = "no"
    /\ stopped' = "error"
    /\ thrownError' = e
    /\ Broadcast(Error_(e))
    /\ outcome' = NoOutcome
    /\ UNCHANGED <<falsyVal, bufSize, buffer, pc, rsub, actionCalls>>

\* subject.complete()
SourceComplete ==
    /\ stopped = "no"
    /\ stopped' = "complete"
    /\ Broadcast(Complete_)
    /\ outcome' = NoOutcome
    /\ UNCHANGED <<falsyVal, bufSize, buffer, thrownError, pc, rsub, actionCalls>>

\* readObservableSynchronously(observable$, skips)
ReadValue(stream, skips) ==
    /\ pc = "idle"
    /\ Len(subs) < MaxSubs
    /\ \/ NoStream("readValue", stream)
       \/ stream = "stream" /\ ReaderRun("readValue", "value", skips)
    /\ UNCHANGED <<falsyVal, bufSize, buffer, stopped, thrownError, pc, rsub, actionCalls>>

\* readObservableErrorSynchronously(observable$, skips)
ReadError(stream, skips) ==
    /\ pc = "idle"
    /\ Len(subs) < MaxSubs
    /\ \/ NoStream("readError", stream)
       \/ stream = "stream" /\ ReaderRun("readError", "error", skips)
    /\ UNCHANGED <<falsyVal, bufSize, buffer, stopped, thrownError, pc, rsub, actionCalls>>

\* readObservableCompletionSynchronously(observable$, skips)
ReadCompletion(stream, skips) ==
    /\ pc = "idle"
    /\ Len(subs) < MaxSubs
    /\ \/ NoStream("readCompletion", stream)
       \/ stream = "stream" /\ ReaderRun("readCompletion", "completion", skips)
    /\ UNCHANGED <<falsyVal, bufSize, buffer, stopped, thrownError, pc, rsub, actionCalls>>

\* (mutant) action() is invoked first, the subscription is made after it
ReadValueAfterActionCallActionFirst(stream, action, skips) ==
    /\ pc = "idle"
    /\ Len(subs) < MaxSubs
    /\ stream = "stream"
    /\ action = "fn"
    /\ rsub' = 0
    /\ actionCalls' = 1
    /\ pc' = "action"
    /\ outcome' = NoOutcome
    /\ UNCHANGED <<falsyVal, bufSize, buffer, stopped, thrownError, subs, lifetime, active>>

\* (mutant) the action argument is checked after the subscription is made
ReadValueAfterActionCallLateCheck(stream, action, skips) ==
    /\ pc = "idle"
    /\ Len(subs) < MaxSubs
    /\ \/ NoStream("readValueAfterAction", stream)
          /\ UNCHANGED <<pc, rsub, actionCalls>>
       \/ /\ stream = "stream"
          /\ action # "fn"
          /\ CountedSubscribe(NewSub("reader", "value", skips))
          /\ outcome' = Threw("readValueAfterAction", 0, "action (${action}) is required",
                              JsString(action), 0)
          /\ UNCHANGED <<pc, rsub, actionCalls>>
       \/ /\ stream = "stream"
          /\ action = "fn"
          /\ CountedSubscribe(NewSub("reader", "value", skips))
          /\ rsub' = Len(subs) + 1
          /\ actionCalls' = 1
          /\ pc' = "action"
          /\ outcome' = NoOutcome
    /\ UNCHANGED <<falsyVal, bufSize, buffer, stopped, thrownError>>

\* readObservableSynchronouslyAfterAction(observable$, action, skips), up to
\* and including its call of action()
ReadValueAfterActionCall(stream, action, skips) ==
    /\ pc = "idle"
    /\ Len(subs) < MaxSubs
    /\ \/ NoStream("readValueAfterAction", stream)
          /\ UNCHANGED <<pc, rsub, actionCalls>>
       \/ /\ stream = "stream"
          /\ action # "fn"
          /\ outcome' = Threw("readValueAfterAction", 0, "action (${action}) is required",
                              JsString(action), 0)
          /\ UNCHANGED <<subs, lifetime, active, pc, rsub, actionCalls>>
       \/ /\ stream = "stream"
          /\ action = "fn"
          /\ CountedSubscribe(NewSub("reader", "value", skips))
          /\ rsub' = Len(subs) + 1
          /\ actionCalls' = 1
          /\ pc' = "action"
          /\ outcome' = NoOutcome
    /\ UNCHANGED <<falsyVal, bufSize, buffer, stopped, thrownError>>

\* action() returns: the rest of readObservableSynchronouslyAfterAction
ActionReturn ==
    /\ pc = "action"
    /\ rsub \in DOMAIN subs
    /\ LET s1 == subs[rsub]
           chk == ReadValueCheck("readValueAfterAction", s1)
           after == [subs EXCEPT ![rsub] = IF chk.unsub THEN Close(s1) ELSE s1]
       IN  /\ subs' = [after EXCEPT ![rsub] = Forget(@)]
           /\ active' = active - FinalizeCount(subs, after)
           /\ outcome' = chk.out
    /\ pc' = "idle"
    /\ rsub' = 0
    /\ actionCalls' = 0
    /\ UNCHANGED <<falsyVal, bufSize, buffer, stopped, thrownError, lifetime>>

\* a step of the readers and the counter leaves the mocker and the spy alone
ReaderStep == UNCHANGED <<classVars, spyVars, objVars, plusVars>>

Next ==
    \/ ConsumerSubscribe /\ ReaderStep
    \/ \E i \in DOMAIN subs : ConsumerUnsubscribe(i) /\ ReaderStep
    \/ \E v \in Vals : SourceNext(v) /\ ReaderStep
    \/ \E e \in Vals : SourceError(e) /\ ReaderStep
    \/ SourceComplete /\ ReaderStep
    \/ \E st \in Streams, k \in 0..MaxSkips : ReadValue(st, k) /\ ReaderStep
    \/ \E st \in Streams, k \in 0..MaxSkips : ReadError(st, k) /\ ReaderStep
    \/ \E st \in Streams, k \in 0..MaxSkips : ReadCompletion(st, k) /\ ReaderStep
    \/ \E st \in Streams, a \in Actions, k \in 0..MaxSkips : ReadValueAfterActionCall(st, a, k) /\ ReaderStep
    \/ ActionReturn /\ ReaderStep

Spec == Init /\ [][Next]_vars

\* ------------------------------------------------------------- properties
OpenSubs == {i \in DOMAIN subs : subs[i].open}
OpenConsumers == {i \in OpenSubs : subs[i].owner = "consumer"}
OpenReaders == {i \in OpenSubs : subs[i].owner = "reader"}

\* C1: in every reachable state 0 <= activeSubscriptionCount <=
\* lifetimeSubscriptionCount, and no step lowers lifetimeSubscriptionCount.
C1_CountsOrdered ==
    /\ [](0 <= activeSubscriptionCount /\ activeSubscriptionCount <= lifetimeSubscriptionCount)
    /\ [][lifetimeSubscriptionCount' >= lifetimeSubscriptionCount]_vars

\* a second subscription was opened after the first one was finalized
C1_Witness == lifetime = 2 /\ active = 1 /\ ~subs[1].open /\ subs[2].open

\* C2: activeSubscriptionCount is the number of subscriptions opened and not
\* yet finalized: one increment per subscribe, one decrement at the first of
\* unsubscribe, error and complete, none for a repeated or late unsubscribe.
C2_ActiveIsOpenCount == activeSubscriptionCount = Cardinality(OpenSubs)

\* the source terminated with two consumer subscriptions made: every
\* unsubscribe from here on is a late or repeated one
C2_Witness ==
    /\ stopped # "no" /\ Len(subs) = 2 /\ active = 0
    /\ \A i \in DOMAIN subs : subs[i].owner = "consumer"

\* C3: once the source has errored or completed, every subscription on the
\* counted stream is finalized and allSubscriptionsFinalized is true, whether
\* the source stopped before the subscribe or while subscriptions were open.
C3_TerminationFinalizesAll ==
    stopped # "no" => (allSubscriptionsFinalized /\ OpenSubs = {})

\* the source errored with two consumers subscribed
C3_Witness ==
    /\ stopped = "error" /\ lifetime = 2 /\ allSubscriptionsFinalized
    /\ \A i \in DOMAIN subs : subs[i].owner = "consumer"

\* a consumer subscribes while the source has not terminated
C4_SubscribeStep ==
    (/\ stopped = "no"
     /\ Len(subs') = Len(subs) + 1
     /\ subs'[Len(subs')].owner = "consumer")
    => (/\ activeSubscriptionCount' = activeSubscriptionCount + 1
        /\ lifetimeSubscriptionCount' = lifetimeSubscriptionCount + 1
        /\ ~allSubscriptionsFinalized' /\ hasSubscribers' /\ hadSubscribers')

\* a consumer's open subscription is unsubscribed, the source not terminated
C4_UnsubscribeStep ==
    \A i \in DOMAIN subs :
        (/\ stopped' = "no"
         /\ subs[i].owner = "consumer"
         /\ subs[i].open /\ ~subs'[i].open)
        => (/\ activeSubscriptionCount' = activeSubscriptionCount - 1
            /\ lifetimeSubscriptionCount' = lifetimeSubscriptionCount)

\* one subscribe, then its unsubscribe, on a fresh counter
C4_RoundTripDone ==
    /\ stopped = "no" /\ Len(subs) = 1
    /\ subs[1].owner = "consumer" /\ ~subs[1].open

\* C4: while the source has not terminated, a consumer's subscribe raises both
\* counts by one (hasSubscribers, hadSubscribers, not allSubscriptionsFinalized),
\* unsubscribing an open subscription lowers the active count by one and keeps
\* the lifetime count; one subscribe then unsubscribe on a fresh counter gives
\* active 0, lifetime 1, allSubscriptionsFinalized.
C4_RoundTrip ==
    /\ [][C4_SubscribeStep]_vars
    /\ [][C4_UnsubscribeStep]_vars
    /\ [](C4_RoundTripDone =>
            (/\ activeSubscriptionCount = 0 /\ lifetimeSubscriptionCount = 1
             /\ allSubscriptionsFinalized))

C4_Witness == C4_RoundTripDone /\ lifetime = 1

\* the messages of the readers' argument checks
ArgMessages == {"cannot subscribe to ${observable$}", "action (${action}) is required"}
DeficitMessages ==
    {"observable did not emit (skips requested: ${skips}, total skipped emissions: ${emissionCount})",
     "observable did not emit error (skips requested: ${skips}, total skipped emissions: ${emissionCount}",
     "observable did not complete (skips requested: ${skips}, total skipped emissions: ${emissionCount})"}
\* the last operation was a call of reader op that got past its argument checks
Ran(op) == outcome.op = op /\ outcome.t # "none" /\ outcome.msg \notin ArgMessages
InAction == pc = "action"
ActionReturns == pc = "action" /\ pc' = "idle"

\* while action() runs the reader's subscription exists, action() invoked once
C5_SubscribedInAction ==
    InAction => (/\ rsub \in DOMAIN subs
                 /\ subs[rsub].owner = "reader"
                 /\ actionCalls = 1)

\* the (skips+1)-th emission, made by a plain Subject inside action(), is captured
C5_EmissionCaptured ==
    \A v \in Vals :
        (/\ InAction /\ bufSize = 0 /\ rsub \in DOMAIN subs
         /\ subs[rsub].open
         /\ subs[rsub].emissionCount = subs[rsub].skips
         /\ SourceNext(v))
        => (subs'[rsub].emitted /\ subs'[rsub].nextVal = v)

\* nothing action() does afterwards changes what was captured
C5_CaptureKept ==
    (InAction /\ pc' = "action" /\ rsub \in DOMAIN subs /\ subs[rsub].emitted)
    => subs'[rsub] = subs[rsub]

\* the captured value is what the call returns
C5_CaptureReturned ==
    (ActionReturns /\ rsub \in DOMAIN subs /\ subs[rsub].emitted)
    => outcome' = Returned("readValueAfterAction", subs[rsub].skips, subs[rsub].nextVal)

C6_ReadValueReturnsNth ==
    (Ran("readValue") /\ Len(buffer) > outcome.skips)
    => outcome = Returned("readValue", outcome.skips, buffer[outcome.skips + 1])

\* readValue(stream, 1) returned the empty string, the second value replayed
C6_Witness ==
    /\ Ran("readValue") /\ outcome.skips = 1 /\ Len(buffer) = 2
    /\ buffer[2] = "''" /\ outcome.t = "return" /\ outcome.v = "''"

\* C7: when action() returns and the source has errored before the reader got
\* its (skips+1)-th value, readValueAfterAction throws the Error that wraps the
\* source's error payload, whatever the payload.
C7_ErrorIsWrapped ==
    [][(ActionReturns /\ rsub \in DOMAIN subs /\ stopped = "error" /\ ~subs[rsub].emitted)
       => outcome' = Threw("readValueAfterAction", subs[rsub].skips, "${error}",
                           NewError(thrownError).message, 0)]_vars

\* the source has emitted exactly once in its life and the reader running with
\* skips = 1 has been sent that emission (replayed or live)
C8_OneEmission ==
    /\ rsub \in DOMAIN subs /\ subs[rsub].skips = 1
    /\ Len(buffer) = 1 /\ bufSize > Len(buffer)
    /\ stopped # "error"

C8_Deficit(count) ==
    Threw("readValueAfterAction", 1,
          "observable did not emit (skips requested: ${skips}, total skipped emissions: ${emissionCount})",
          "", count)

\* C8 as stated: readValueAfterAction with skips = 1 on a source that emits
\* exactly once throws the emission-deficit error naming skips 1 and count 0.
C8_DeficitReportsZero ==
    [][(ActionReturns /\ C8_OneEmission) => outcome' = C8_Deficit(0)]_vars

\* C8 amended: the emission-deficit error names skips 1 and count 1, the one
\* emission the reader was sent and skipped.
C8_DeficitReportsOne ==
    [][(ActionReturns /\ C8_OneEmission) => outcome' = C8_Deficit(1)]_vars

\* readValueAfterAction(stream, action, 1) threw the deficit error on a source
\* with one emission
C8_Witness ==
    /\ outcome = C8_Deficit(1) /\ Len(buffer) = 1 /\ bufSize > 1 /\ stopped = "no"

\* outside a reader call no reader's subscription is open or counted
C9_NoReaderSubscriptionLeft ==
    pc = "idle" => (/\ OpenReaders = {}
                    /\ activeSubscriptionCount = Cardinality(OpenConsumers))

\* a reader call that takes no action leaves the active count as it found it
C9_ActiveRestored ==
    (pc = "idle" /\ pc' = "idle" /\ outcome'.t # "none")
    => activeSubscriptionCount' = activeSubscriptionCount

\* C9: once a reader has returned or thrown, the subscription it opened is
\* finalized: no reader's subscription is open, the counter counts the
\* consumers' open subscriptions only, and readValue, readError and
\* readCompletion leave activeSubscriptionCount as they found it.
C9_ReadersFinalize ==
    /\ []C9_NoReaderSubscriptionLeft
    /\ [][C9_ActiveRestored]_vars

\* readError threw its deficit error on a source that has not terminated, with
\* a consumer subscribed
C9_Witness ==
    /\ Ran("readError") /\ outcome.msg \in DeficitMessages
    /\ stopped = "no" /\ active = 1 /\ lifetime = 2

\* C10: readCompletion(stream, skips) returns true only when the source has
\* completed after delivering no more than skips values; otherwise it throws.
C10_TrueOnlyOnCompletion ==
    (Ran("readCompletion") /\ outcome.t = "return")
    => (/\ outcome.v = "true"
        /\ stopped = "complete"
        /\ Len(buffer) <= outcome.skips)

\* C11: readError(stream, skips) returns exactly when the stream delivers an
\* error after at most skips values, and then returns that error's payload,
\* falsy or not; when a value arrives at the target position, the stream
\* completes without error or delivers nothing more, it throws.
C11_ReadErrorReturnsPayload ==
    Ran("readError") =>
        IF stopped = "error" /\ Len(buffer) <= outcome.skips
        THEN outcome = Returned("readError", outcome.skips, thrownError)
        ELSE outcome.t = "throw"

\* readError(stream, 1) returned a falsy payload after one skipped value
C11_Witness ==
    /\ Ran("readError") /\ outcome.t = "return" /\ outcome.skips = 1
    /\ Len(buffer) = 1 /\ thrownError \in Falsy /\ outcome.v = thrownError

\* a reader called without a stream, or readValueAfterAction without an action
C12_ArgumentMissing ==
    \E st \in Streams, a \in Actions, k \in 0..MaxSkips :
        \/ /\ st # "stream"
           /\ \/ ReadValue(st, k)
              \/ ReadError(st, k)
              \/ ReadCompletion(st, k)
              \/ ReadValueAfterActionCall(st, a, k)
        \/ /\ st = "stream" /\ a # "fn"
           /\ ReadValueAfterActionCall(st, a, k)

\* C12: a reader called without a stream throws its argument error without
\* subscribing and without invoking action; readValueAfterAction called with a
\* stream but no action throws without subscribing: the subscriptions and both
\* counts of the counter stay as they were.
C12_ArgumentErrorsSubscribeNothing ==
    [][C12_ArgumentMissing =>
        (/\ outcome'.t = "throw" /\ outcome'.msg \in ArgMessages
         /\ subs' = subs
         /\ lifetimeSubscriptionCount' = lifetimeSubscriptionCount
         /\ activeSubscriptionCount' = activeSubscriptionCount
         /\ pc' = "idle" /\ actionCalls' = actionCalls)]_vars

\* readValueAfterAction threw for its missing action, a consumer being subscribed
C12_Witness ==
    /\ outcome.op = "readValueAfterAction"
    /\ outcome.msg = "action (${action}) is required"
    /\ lifetime = 1 /\ active = 1

\* C13: readCompletion(stream, skips) throws when the stream completes after
\* emitting fewer than skips values in all.
C13_TooFewEmissionsThrows ==
    (/\ Ran("readCompletion")
     /\ stopped = "complete"
     /\ Len(buffer) < outcome.skips /\ bufSize > Len(buffer))
    => outcome.t = "throw"

\* ---------------------------------------------------------------------------
\* AutoMocker.mockClass
\* ---------------------------------------------------------------------------

\* how many classes below Object a mocked class's prototype chain has at most
MaxLevels == 2

\* What one prototype of the chain holds under a name: nothing, a method, or an
\* accessor with a getter, a setter or both.
Kinds == {"absent", "method", "get", "set", "getset"}

\* Object.getOwnPropertyNames(currentPrototype) without "constructor"
NameOrder == <<"a", "b">>

\* the arrays a test passes as options.additionalMethodsToMock
AdditionalChoices == {<<>>, <<"a">>, <<"b">>, <<"b", "a">>}

\* getDefinedPropertyData(obj, propertyName) for a name obj holds as kind k
getDefinedPropertyData(name, k) ==
    [propertyName |-> name, hasSet |-> k \in {"set", "getset"},
     hasGet |-> k \in {"get", "getset"}]

\* the body of getMemberData's forEach for one own property name of one prototype
ScanMember(md, level, name) ==
    LET propertyData == getDefinedPropertyData(name, level[name])
    IN  IF level[name] = "absent" THEN md
        ELSE IF propertyData.hasGet \/ propertyData.hasSet
        THEN [md EXCEPT !.definedPropertiesData = Append(@, propertyData)]
        ELSE [md EXCEPT !.methodNames = Append(@, name)]

RECURSIVE ScanLevel(_, _, _)
ScanLevel(md, level, i) ==
    IF i > Len(NameOrder) THEN md
    ELSE ScanLevel(ScanMember(md, level, NameOrder[i]), level, i + 1)

\* getMemberData(ctor): walks the chain from ctor.prototype up to Object
RECURSIVE WalkChain(_, _, _)
WalkChain(md, ch, l) ==
    IF l > Len(ch) THEN md
    ELSE WalkChain(ScanLevel(md, ch[l], 1), ch, l + 1)

getMemberData(ch) == WalkChain(EmptyMemberData, ch, 1)

\* lodash uniq: the first occurrence of every element, in order
RECURSIVE uniq(_)
uniq(seq) ==
    IF seq = <<>> THEN <<>>
    ELSE LET front == uniq(SubSeq(seq, 1, Len(seq) - 1))
             last == seq[Len(seq)]
         IN  IF \E i \in DOMAIN front : front[i] = last THEN front ELSE Append(front, last)

\* jasmine.createSpyObj(name, methodNames): an object whose own enumerable
\* properties are fresh spies
createSpyObj(methodNames) ==
    [n \in Names |->
        IF \E i \in DOMAIN methodNames : methodNames[i] = n
        THEN [kind |-> "spy", hasGet |-> FALSE, hasSet |-> FALSE, calls |-> 0,
              enumerable |-> TRUE]
        ELSE NoMember]

\* addMockDefinedProperty(mock, propertyData): Object.defineProperty with get, set
\* and configurable given (an existing property keeps its enumerability, a new one
\* is not enumerable), then mockAsProperty spies on the accessors that exist
addMockDefinedProperty(m, propertyData) ==
    [m EXCEPT ![propertyData.propertyName] =
        [kind |-> "accessor", hasGet |-> propertyData.hasGet,
         hasSet |-> propertyData.hasSet, calls |-> 0, enumerable |-> @.enumerable]]

\* the filter(...).forEach(...) of mockClass over definedPropertiesData
RECURSIVE AddDefinedProperties(_, _, _, _)
AddDefinedProperties(m, data, ignored, i) ==
    IF i > Len(data) THEN m
    ELSE AddDefinedProperties(
            IF data[i].propertyName \in ignored THEN m
            ELSE addMockDefinedProperty(m, data[i]),
            data, ignored, i + 1)

\* const allMethodsToMock = uniq([...methodNames, ...additionalMethodsToMock])
allMethodsToMock(md, opts) == uniq(md.methodNames \o opts.additionalMethodsToMock)

mockClass(ch, opts) ==
    LET md == getMemberData(ch)
        spies == IF allMethodsToMock(md, opts) = <<>> THEN EmptyMock
                 ELSE createSpyObj(allMethodsToMock(md, opts))
    IN  IF opts.ignoreAllProperties THEN spies
        ELSE AddDefinedProperties(spies, md.definedPropertiesData,
                                  opts.ignoredProperties, 1)

\* isSpyLike(value): value && !!value.calls, for what the mock holds under a name
\* (reading an accessor property yields what its getter returns: undefined)
isSpyLikeMember(m, name) == m[name].kind = "spy"

\* mock[name] for an accessor property the test has not configured: the getter
\* spy calls through to () => {}, and a property without getter reads undefined
ReadMember(m, name) == IF m[name].kind = "spy" THEN "spy" ELSE "undefined"

\* Object.keys(mock)
Keys(m) == {n \in Names : m[n].kind # "none" /\ m[n].enumerable}

Chains == UNION {[1..n -> [Names -> Kinds]] : n \in 0..MaxLevels}

OptionChoices ==
    [called : {TRUE}, additionalMethodsToMock : AdditionalChoices,
     ignoredProperties : SUBSET Names, ignoreAllProperties : BOOLEAN]

InitClass ==
    /\ chain \in Chains
    /\ options = NoOptions
    /\ memberData = EmptyMemberData
    /\ mock = EmptyMock
    /\ SpyIdle
    /\ ObjIdle
    /\ PlusIdle
    /\ falsyVal = "undefined" /\ bufSize = 0 /\ buffer = <<>> /\ stopped = "no"
    /\ thrownError = "undefined" /\ subs = <<>> /\ lifetime = 0 /\ active = 0
    /\ pc = "idle" /\ rsub = 0 /\ actionCalls = 0 /\ outcome = NoOutcome

\* a test calls autoMocker.mockClass(ctor, opts)
MockClass(opts) ==
    /\ ~options.called
    /\ options' = opts
    /\ memberData' = getMemberData(chain)
    /\ mock' = mockClass(chain, opts)
    /\ UNCHANGED <<chain, readerVars, spyVars, objVars, plusVars>>

NextClass == \E opts \in OptionChoices : MockClass(opts)

SpecClass == InitClass /\ [][NextClass]_vars

\* ---------------------------------------------------------------------------
\* Properties of mockClass
\* ---------------------------------------------------------------------------

\* the levels of the mocked class that declare the name
DeclaringLevels(n) == {l \in DOMAIN chain : chain[l][n] # "absent"}

\* what the most-derived declaring level holds under the name
MostDerivedKind(n) ==
    chain[CHOOSE l \in DeclaringLevels(n) : \A k \in DeclaringLevels(n) : l <= k][n]

\* the names some level of the chain declares as a method / as an accessor
DiscoveredMethods == {n \in Names : \E l \in DOMAIN chain : chain[l][n] = "method"}
DiscoveredAccessors ==
    {n \in Names : \E l \in DOMAIN chain : chain[l][n] \in {"get", "set", "getset"}}

AdditionalMethods ==
    {options.additionalMethodsToMock[i] : i \in DOMAIN options.additionalMethodsToMock}

\* how often the name occurs in what getMemberData returned
Occurrences(n) ==
    Cardinality({i \in DOMAIN memberData.methodNames : memberData.methodNames[i] = n})
    + Cardinality({i \in DOMAIN memberData.definedPropertiesData :
                      memberData.definedPropertiesData[i].propertyName = n})

\* C15: after mockClass(C, options) every name in the union of the methods found
\* on C's chain and options.additionalMethodsToMock is a spy with call count 0 on
\* the mock; with an empty union and no accessors the mock has no own enumerable
\* keys and holds no spy.
C15_UnionOfMethodsAreSpies ==
    options.called =>
        /\ \A n \in DiscoveredMethods \cup AdditionalMethods :
              isSpyLikeMember(mock, n) /\ mock[n].calls = 0
        /\ (DiscoveredMethods \cup AdditionalMethods = {} /\ DiscoveredAccessors = {})
              => (Keys(mock) = {} /\ \A n \in Names : ~isSpyLikeMember(mock, n))

\* C16: a name declared at several levels of the mocked class occurs once in the
\* merged member data, and what the mock holds under it has the kind and the
\* hasGet/hasSet shape of the most-derived declaration.
C16_MostDerivedDeclarationWins ==
    (options.called /\ ~options.ignoreAllProperties) =>
        \A n \in Names \ options.ignoredProperties :
            Cardinality(DeclaringLevels(n)) > 1 =>
                /\ Occurrences(n) = 1
                /\ IF MostDerivedKind(n) = "method" THEN mock[n].kind = "spy"
                   ELSE /\ mock[n].kind = "accessor"
                        /\ mock[n].hasGet = (MostDerivedKind(n) \in {"get", "getset"})
                        /\ mock[n].hasSet = (MostDerivedKind(n) \in {"set", "getset"})

\* C17: the mock has an own accessor property for exactly the discovered accessor
\* names outside options.ignoredProperties (none with ignoreAllProperties); each
\* has a getter iff the class's accessor has one and a setter iff it has one, and
\* reads undefined.
C17_AccessorsInstalledWithSourceShape ==
    options.called =>
        /\ {n \in Names : mock[n].kind = "accessor"} =
              IF options.ignoreAllProperties THEN {}
              ELSE DiscoveredAccessors \ options.ignoredProperties
        /\ \A n \in Names :
              mock[n].kind = "accessor" =>
                  /\ MostDerivedKind(n) # "method"
                  /\ mock[n].hasGet = (MostDerivedKind(n) \in {"get", "getset"})
                  /\ mock[n].hasSet = (MostDerivedKind(n) \in {"set", "getset"})
                  /\ ReadMember(mock, n) = "undefined"

\* ---------------------------------------------------------------------------
\* The spy helpers of AutoMocker and AutoMockerPlus
\* ---------------------------------------------------------------------------

\* how many calls of the spy a run tracks at most
MaxCalls == 3

\* how long the list handed to withReturnValues is at most
MaxReturnValues == 2

\* the values a test configures a spy to return
SpyVals == {"v0", "v1"}

\* the value a test registers for one argument list (withReturnForArguments)
ArgsVal == "w"

\* the argument lists a test calls the spy with: none (as a getter is read), or a
\* first argument and one more
ArgKeys == {"k1", "k2"}
ArgRest == {"r1", "r2"}
ArgLists == {<<>>} \cup {<<k, r>> : k \in ArgKeys, r \in ArgRest}

ValueLists == UNION {[1..n -> SpyVals] : n \in 0..MaxReturnValues}

\* the returnMap objects a test hands to withFirstArgMappedReturn
EmptyMap == [k \in {} |-> "undefined"]
MapChoices == {EmptyMap, [k \in {"k1"} |-> "v0"], [k \in ArgKeys |-> IF k = "k1" THEN "v0" ELSE "v1"]}

\* the defaultReturn a test hands to withFirstArgMappedReturn
DefaultReturn == "d"

\* the argument lists a test registers a value for (withReturnForArguments)
ArgsChoices == {<<>>, <<"k1", "r1">>}

\* the optional spyName argument: omitted, or a label
Labels == {"undefined", "mySpy"}

\* isSpyLike(value): value && !!value.calls
isSpyLike(value) == value.kind = "spy"

\* throwNotASpyError(caller, spyName = "[spyName not provided]"): the two slots of
\* the message `${caller}: Provided spy ${spyName} is not an actual spy.`
throwNotASpyError(caller, spyName) ==
    [t |-> "throw", caller |-> caller,
     spyName |-> IF spyName = "undefined" THEN "[spyName not provided]" ELSE spyName,
     v |-> "undefined", count |-> 0, list |-> <<>>]

\* a helper returns normally (count: what getCallCount returns)
HelperReturns(count) ==
    [t |-> "return", caller |-> "none", spyName |-> "none", v |-> "undefined", count |-> count,
     list |-> <<>>]

\* what a helper leaves behind: the function it was handed and how it ended
Helped(spy, res) == [spy |-> spy, res |-> res]

\* spy.and.returnValue(v)
ReturnValuePlan(v) == [plan |-> "returnValue", value |-> v, values |-> <<>>, map |-> EmptyMap]

\* spy.and.returnValues(...values)
ReturnValuesPlan(values) ==
    [plan |-> "returnValues", value |-> "undefined", values |-> values, map |-> EmptyMap]

\* spy.and.callFake(key => hasOwnProperty.call(map, key) ? map[key] : default)
CallFakePlan(map, default) ==
    [plan |-> "callFake", value |-> default, values |-> <<>>, map |-> map]

\* spy.and.throwError(message)
ThrowErrorPlan == [plan |-> "throwError", value |-> "undefined", values |-> <<>>, map |-> EmptyMap]

\* spy.and.callThrough(): the original function, which returns "original"
CallThroughPlan == [plan |-> "callThrough", value |-> "original", values |-> <<>>, map |-> EmptyMap]

\* the shape every helper of the form
\*   if (this.isSpyLike(spy)) { spy.and.<plan>; return; } this.throwNotASpyError(name, spyName)
\* has
SetPlan(spy, plan, caller, spyName) ==
    IF isSpyLike(spy) THEN Helped([spy EXCEPT !.and = plan], HelperReturns(0))
    ELSE Helped(spy, throwNotASpyError(caller, spyName))

withCallFake(spy, fake, spyName) ==
    SetPlan(spy, CallFakePlan(EmptyMap, fake), "withCallFake", spyName)

\* (mutant) the fake returns returnMap[key] without falling back to defaultReturn
withFirstArgMappedReturnNoDefault(spy, returnMap, defaultReturn, spyName) ==
    SetPlan(spy, CallFakePlan(returnMap, "undefined"), "withFirstArgMappedReturn", spyName)

withFirstArgMappedReturn(spy, returnMap, defaultReturn, spyName) ==
    SetPlan(spy, CallFakePlan(returnMap, defaultReturn), "withFirstArgMappedReturn", spyName)

withCallThrough(spy, spyName) == SetPlan(spy, CallThroughPlan, "withCallThrough", spyName)

withReturnValue(spy, returnValue, spyName) ==
    SetPlan(spy, ReturnValuePlan(returnValue), "withReturnValue", spyName)

withReturnForArguments(spy, args, returnValue, spyName) ==
    IF ~isSpyLike(spy) THEN Helped(spy, throwNotASpyError("withReturnForArguments", spyName))
    ELSE Helped([spy EXCEPT !.withArgs = [on |-> TRUE, args |-> args, value |-> returnValue]],
                HelperReturns(0))

\* (mutant) installs the first value only (spy.and.returnValue(returnValues[0]))
withReturnValuesFirstOnly(spy, returnValues, spyName) ==
    SetPlan(spy,
            ReturnValuePlan(IF returnValues = <<>> THEN "undefined" ELSE Head(returnValues)),
            "withReturnValues", spyName)

withReturnValues(spy, returnValues, spyName) ==
    SetPlan(spy, ReturnValuesPlan(returnValues), "withReturnValues", spyName)

withThrows(spy, spyName) == SetPlan(spy, ThrowErrorPlan, "withThrows", spyName)

\* (mutant) resets the strategy (spy.and.stub()) instead of the tracked calls
resetSpyStubs(spy, spyName) ==
    IF isSpyLike(spy) THEN Helped([spy EXCEPT !.and = StubPlan], HelperReturns(0))
    ELSE Helped(spy, throwNotASpyError("resetSpy", spyName))

resetSpy(spy, spyName) ==
    IF isSpyLike(spy) THEN Helped([spy EXCEPT !.calls = 0], HelperReturns(0))
    ELSE Helped(spy, throwNotASpyError("resetSpy", spyName))

getCallCount(spy, spyName) ==
    IF ~isSpyLike(spy) THEN Helped(spy, throwNotASpyError("getCallCount", spyName))
    ELSE Helped(spy, HelperReturns(spy.calls))

\* getPropertyAccessorSpy(obj, key, accessor): the function the property's
\* descriptor holds as its getter or setter; the model's target stands for it
getPropertyAccessorSpy(spy) == spy

withCallAccessorFake(spy, fake, spyName) ==
    withCallFake(getPropertyAccessorSpy(spy), fake, spyName)

withCallAccessorThrough(spy, spyName) == withCallThrough(getPropertyAccessorSpy(spy), spyName)

withReturnGetterValue(spy, returnValue, spyName) ==
    withReturnValue(getPropertyAccessorSpy(spy), returnValue, spyName)

withReturnGetterValues(spy, returnValues, spyName) ==
    withReturnValues(getPropertyAccessorSpy(spy), returnValues, spyName)

withAccessorThrows(spy, spyName) == withThrows(getPropertyAccessorSpy(spy), spyName)

resetAccessorSpy(spy, spyName) == resetSpy(getPropertyAccessorSpy(spy), spyName)

\* AutoMockerPlus: the helpers that build a stream or a promise from their input
\* (v stands for what is built from it) and install it with spy.and.returnValue
withReturnObservable(spy, v, spyName) ==
    SetPlan(spy, ReturnValuePlan(v), "withReturnObservable", spyName)

withReturnNonEmittingObservable(spy, v, spyName) ==
    SetPlan(spy, ReturnValuePlan(v), "withReturnNonEmittingObservable", spyName)

withReturnCompletingCountedObservable(spy, v, spyName) ==
    SetPlan(spy, ReturnValuePlan(v), "withReturnCompletingCountedObservable", spyName)

withReturnNonCompletingCountedObservable(spy, v, spyName) ==
    SetPlan(spy, ReturnValuePlan(v), "withReturnNonCompletingCountedObservable", spyName)

\* the stream objects a test hands over next to raw values
StreamObjects == {"s$"}

\* of(v): a new stream; OfEmits: what it sends a subscriber before it completes
Of(v) ==
    CASE v = "v0" -> "of(v0)"
      [] v = "v1" -> "of(v1)"
      [] OTHER -> "of(undefined)"
OfEmits(stream) ==
    CASE stream = "of(v0)" -> <<"v0">>
      [] stream = "of(v1)" -> <<"v1">>
      [] stream = "of(undefined)" -> <<"undefined">>
      [] OTHER -> <<>>
IsOf(stream) == stream \in {"of(v0)", "of(v1)", "of(undefined)"}

\* resolveWith.map(r => r instanceof Observable ? r : of(r))
Normalize(resolveWith) ==
    [i \in DOMAIN resolveWith |->
        IF resolveWith[i] \in StreamObjects THEN resolveWith[i] ELSE Of(resolveWith[i])]

\* (mutant) the values are installed and returned as they were handed over
withReturnObservablesRaw(spy, resolveWith, spyName) ==
    IF isSpyLike(spy)
    THEN Helped(withReturnValues(spy, resolveWith, spyName).spy,
                [HelperReturns(0) EXCEPT !.list = resolveWith])
    ELSE Helped(spy, throwNotASpyError("withReturnObservables", spyName))

withReturnObservables(spy, resolveWith, spyName) ==
    IF isSpyLike(spy)
    THEN LET observables == Normalize(resolveWith)
         IN  Helped(withReturnValues(spy, observables, spyName).spy,
                    [HelperReturns(0) EXCEPT !.list = observables])
    ELSE Helped(spy, throwNotASpyError("withReturnObservables", spyName))

withReturnThrowObservable(spy, v, spyName) ==
    SetPlan(spy, ReturnValuePlan(v), "withReturnThrowObservable", spyName)

withFirstArgMappedReturnObservable(spy, returnMap, defaultReturn, spyName) ==
    SetPlan(spy, CallFakePlan(returnMap, defaultReturn),
            "withFirstArgMappedReturnObservable", spyName)

withReturnSubjectAsObservable(spy, v, spyName) ==
    SetPlan(spy, ReturnValuePlan(v), "withReturnSubjectAsObservable", spyName)

\* these three end with this.throwNotASpyError(spyName): the label is passed as
\* the caller and no spyName is passed
withReturnSubjectWithErrorAsObservable(spy, v, spyName) ==
    SetPlan(spy, ReturnValuePlan(v), spyName, "undefined")

withReturnPromise(spy, v, spyName) == SetPlan(spy, ReturnValuePlan(v), spyName, "undefined")

withReturnRejectedPromise(spy, v, spyName) ==
    SetPlan(spy, ReturnValuePlan(v), spyName, "undefined")

\* The helpers by what a test hands them next to the spy and the label.
ValueHelpers ==
    {"withCallFake", "withCallAccessorFake", "withReturnValue", "withReturnGetterValue",
     "withReturnObservable", "withReturnNonEmittingObservable",
     "withReturnCompletingCountedObservable", "withReturnNonCompletingCountedObservable",
     "withReturnThrowObservable", "withReturnSubjectAsObservable",
     "withReturnSubjectWithErrorAsObservable", "withReturnPromise",
     "withReturnRejectedPromise"}
ListHelpers == {"withReturnValues", "withReturnGetterValues", "withReturnObservables"}
MapHelpers == {"withFirstArgMappedReturn", "withFirstArgMappedReturnObservable"}
PlainHelpers == {"withCallThrough", "withCallAccessorThrough", "withThrows", "withAccessorThrows"}
ResetHelpers == {"resetSpy", "resetAccessorSpy"}
Helpers ==
    ValueHelpers \cup ListHelpers \cup MapHelpers \cup PlainHelpers \cup ResetHelpers
    \cup {"withReturnForArguments", "getCallCount"}

\* What a test can pass to a helper. The helpers of AutoMocker that take a value,
\* a list or a map get every choice; a helper that builds its return value from
\* the input (a stream, a promise) gets one.
ResolveWithLists == UNION {[1..n -> {"v0"} \cup StreamObjects] : n \in 0..MaxReturnValues}
NoInput == [v |-> "undefined", vals |-> <<>>, map |-> EmptyMap, args |-> <<>>]
InputsOf(h) ==
    IF h \in {"withCallFake", "withReturnValue"} THEN {[NoInput EXCEPT !.v = v] : v \in SpyVals}
    ELSE IF h \in ValueHelpers THEN {[NoInput EXCEPT !.v = "v0"]}
    ELSE IF h = "withReturnObservables"
    THEN {[NoInput EXCEPT !.vals = l] : l \in ResolveWithLists}
    ELSE IF h \in ListHelpers THEN {[NoInput EXCEPT !.vals = l] : l \in ValueLists}
    ELSE IF h \in MapHelpers
    THEN {[NoInput EXCEPT !.map = m, !.v = DefaultReturn] : m \in MapChoices}
    ELSE IF h = "withReturnForArguments"
    THEN {[NoInput EXCEPT !.args = a, !.v = ArgsVal] : a \in ArgsChoices}
    ELSE {NoInput}

\* The spyName a test passes: it is read only where the helper throws, so a call
\* on a spy is made without one.
LabelsFor(spy) == IF isSpyLike(spy) THEN {"undefined"} ELSE Labels

\* autoMocker.<h>(spy, ..., spyName)
Apply(h, spy, in, l) ==
    CASE h = "withCallFake" -> withCallFake(spy, in.v, l)
      [] h = "withCallAccessorFake" -> withCallAccessorFake(spy, in.v, l)
      [] h = "withReturnValue" -> withReturnValue(spy, in.v, l)
      [] h = "withReturnGetterValue" -> withReturnGetterValue(spy, in.v, l)
      [] h = "withReturnObservable" -> withReturnObservable(spy, in.v, l)
      [] h = "withReturnNonEmittingObservable" -> withReturnNonEmittingObservable(spy, in.v, l)
      [] h = "withReturnCompletingCountedObservable" ->
            withReturnCompletingCountedObservable(spy, in.v, l)
      [] h = "withReturnNonCompletingCountedObservable" ->
            withReturnNonCompletingCountedObservable(spy, in.v, l)
      [] h = "withReturnThrowObservable" -> withReturnThrowObservable(spy, in.v, l)
      [] h = "withReturnSubjectAsObservable" -> withReturnSubjectAsObservable(spy, in.v, l)
      [] h = "withReturnSubjectWithErrorAsObservable" ->
            withReturnSubjectWithErrorAsObservable(spy, in.v, l)
      [] h = "withReturnPromise" -> withReturnPromise(spy, in.v, l)
      [] h = "withReturnRejectedPromise" -> withReturnRejectedPromise(spy, in.v, l)
      [] h = "withReturnValues" -> withReturnValues(spy, in.vals, l)
      [] h = "withReturnGetterValues" -> withReturnGetterValues(spy, in.vals, l)
      [] h = "withReturnObservables" -> withReturnObservables(spy, in.vals, l)
      [] h = "withFirstArgMappedReturn" -> withFirstArgMappedReturn(spy, in.map, in.v, l)
      [] h = "withFirstArgMappedReturnObservable" ->
            withFirstArgMappedReturnObservable(spy, in.map, in.v, l)
      [] h = "withCallThrough" -> withCallThrough(spy, l)
      [] h = "withCallAccessorThrough" -> withCallAccessorThrough(spy, l)
      [] h = "withThrows" -> withThrows(spy, l)
      [] h = "withAccessorThrows" -> withAccessorThrows(spy, l)
      [] h = "resetSpy" -> resetSpy(spy, l)
      [] h = "resetAccessorSpy" -> resetAccessorSpy(spy, l)
      [] h = "withReturnForArguments" -> withReturnForArguments(spy, in.args, in.v, l)
      [] h = "getCallCount" -> getCallCount(spy, l)

\* how a call of the spy ends
CallEnds(spy, t, v) == [spy |-> spy, t |-> t, v |-> v]

\* jasmine executes the spy's base strategy (spy.and) for a call with args
ExecPlan(spy, args) ==
    LET plan == spy.and
        key == IF args = <<>> THEN "undefined" ELSE args[1]
    IN  CASE plan.plan = "stub" -> CallEnds(spy, "return", "undefined")
          [] plan.plan = "returnValue" -> CallEnds(spy, "return", plan.value)
          [] plan.plan = "returnValues" ->
                IF plan.values = <<>> THEN CallEnds(spy, "return", "undefined")
                ELSE CallEnds([spy EXCEPT !.and.values = Tail(@)], "return",
                              Head(plan.values))
          [] plan.plan = "callFake" ->
                CallEnds(spy, "return",
                         IF key \in DOMAIN plan.map THEN plan.map[key] ELSE plan.value)
          [] plan.plan = "throwError" -> CallEnds(spy, "throw", "undefined")
          [] plan.plan = "callThrough" -> CallEnds(spy, "return", plan.value)

\* spy(...args): jasmine tracks the call, then runs the strategy registered with
\* withArgs for exactly these arguments if there is one, and the base strategy
\* otherwise (it throws when only other arguments have a strategy)
Exec(spy, args) ==
    LET tracked == [spy EXCEPT !.calls = @ + 1]
    IN  IF spy.withArgs.on /\ spy.withArgs.args = args
        THEN CallEnds(tracked, "return", spy.withArgs.value)
        ELSE IF spy.withArgs.on /\ spy.and.plan = "stub"
        THEN CallEnds(tracked, "throw", "undefined")
        ELSE ExecPlan(tracked, args)

\* the helpers that replace the spy's base strategy
PlanHelpers == ValueHelpers \cup ListHelpers \cup MapHelpers \cup PlainHelpers

InitSpy ==
    /\ target \in {NewTarget("spy"), NewTarget("function")}
    /\ configured = NotConfigured
    /\ invocations = 0
    /\ result = NoResult
    /\ ClassIdle
    /\ ObjIdle
    /\ PlusIdle
    /\ falsyVal = "undefined" /\ bufSize = 0 /\ buffer = <<>> /\ stopped = "no"
    /\ thrownError = "undefined" /\ subs = <<>> /\ lifetime = 0 /\ active = 0
    /\ pc = "idle" /\ rsub = 0 /\ actionCalls = 0 /\ outcome = NoOutcome

\* a test calls autoMocker.<h>(target, ..., l)
Helper(h, in, l) ==
    LET r == Apply(h, target, in, l)
    IN  /\ target' = r.spy
        /\ result' = [t |-> r.res.t, helper |-> h, label |-> l, caller |-> r.res.caller,
                      spyName |-> r.res.spyName, v |-> r.res.v, count |-> r.res.count,
                      args |-> <<>>, list |-> r.res.list]
        /\ configured' =
              IF r.res.t = "throw" \/ h \notin PlanHelpers THEN configured
              ELSE IF h = "withReturnObservables"
              THEN [NotConfigured EXCEPT !.by = "withReturnObservables", !.values = in.vals]
              ELSE IF h \in ListHelpers
              THEN [NotConfigured EXCEPT !.by = "withReturnValues", !.values = in.vals]
              ELSE IF h \in MapHelpers
              THEN [NotConfigured EXCEPT !.by = "withFirstArgMappedReturn", !.map = in.map,
                                         !.default = in.v]
              ELSE NotConfigured
        /\ invocations' = IF r.res.t = "return" /\ h \in ResetHelpers THEN 0 ELSE invocations
        /\ UNCHANGED <<readerVars, classVars, objVars, plusVars>>

\* a test (or the code under test) calls the spy
CallSpy(args) ==
    /\ isSpyLike(target)
    /\ invocations < MaxCalls /\ configured.since < MaxCalls
    /\ LET r == Exec(target, args)
       IN  /\ target' = r.spy
           /\ result' = [NoResult EXCEPT !.t = r.t, !.helper = "call", !.v = r.v,
                                         !.args = args]
    /\ configured' = IF configured.by = "none" THEN configured
                     ELSE [configured EXCEPT !.since = @ + 1]
    /\ invocations' = invocations + 1
    /\ UNCHANGED <<readerVars, classVars, objVars, plusVars>>

NextSpy ==
    \/ \E h \in Helpers, l \in LabelsFor(target) : \E in \in InputsOf(h) : Helper(h, in, l)
    \/ \E args \in ArgLists : CallSpy(args)

SpecSpy == InitSpy /\ [][NextSpy]_vars

\* ---------------------------------------------------------------------------
\* Properties of the spy helpers
\* ---------------------------------------------------------------------------

\* The text `${caller}: Provided spy ${spyName} is not an actual spy.` contains
\* the word (a helper's name, a label or the marker): it fills one of the slots.
MessageContains(res, word) == res.caller = word \/ res.spyName = word

\* C14: a helper invoked on a function that is no spy throws an error whose
\* message contains the helper's own name and the label passed (the marker
\* '[spyName not provided]' when none is passed), and the function is left as it was.
C14_NotASpyErrorNamesHelper ==
    (result.helper \in Helpers /\ result.t = "throw") =>
        /\ MessageContains(result, result.helper)
        /\ MessageContains(result, IF result.label = "undefined"
                                   THEN "[spyName not provided]" ELSE result.label)
        /\ target = NewTarget("function")

\* the values the spy has to return for its calls number 0, 1, ... after
\* withReturnValues(spy, values)
KthValue(values, k) == IF k < Len(values) THEN values[k + 1] ELSE "undefined"

\* C18 as stated: after withReturnValues(spy, [v0..v(n-1)]) (or withReturnGetterValues)
\* the k-th call of the spy returns vk for k < n and undefined for k >= n, whatever
\* its arguments.
C18_KthCallReturnsKthValue ==
    (result.helper = "call" /\ configured.by = "withReturnValues") =>
        /\ result.t = "return"
        /\ result.v = KthValue(configured.values, configured.since - 1)

\* C18: the same, on a spy for which no value is registered for an argument list
\* with withReturnForArguments.
C18_KthCallReturnsKthValueWithoutArgs ==
    (result.helper = "call" /\ configured.by = "withReturnValues" /\ ~target.withArgs.on) =>
        /\ result.t = "return"
        /\ result.v = KthValue(configured.values, configured.since - 1)

C18_Witness ==
    /\ result.helper = "call" /\ configured.by = "withReturnValues"
    /\ ~target.withArgs.on
    /\ configured.values = <<"v1", "v0">> /\ configured.since = 3
    /\ result.args = <<"k2", "r1">> /\ result.v = "undefined"

\* what the function installed by withFirstArgMappedReturn(spy, map, default) has to
\* return for a call with args
MappedReturn(map, default, args) ==
    IF args # <<>> /\ args[1] \in DOMAIN map THEN map[args[1]] ELSE default

\* C19 as stated: after withFirstArgMappedReturn(spy, map, default) every call
\* spy(k, ...rest) returns map[k] when k is an own key of map and default
\* otherwise, whatever the rest and the number of earlier calls.
C19_FirstArgumentDecides ==
    (result.helper = "call" /\ configured.by = "withFirstArgMappedReturn") =>
        /\ result.t = "return"
        /\ result.v = MappedReturn(configured.map, configured.default, result.args)

\* C19: the same, on a spy for which no value is registered for an argument list
\* with withReturnForArguments.
C19_FirstArgumentDecidesWithoutArgs ==
    (/\ result.helper = "call" /\ configured.by = "withFirstArgMappedReturn"
     /\ ~target.withArgs.on) =>
        /\ result.t = "return"
        /\ result.v = MappedReturn(configured.map, configured.default, result.args)

C19_Witness ==
    /\ result.helper = "call" /\ configured.by = "withFirstArgMappedReturn"
    /\ ~target.withArgs.on
    /\ configured.since = 3
    /\ result.args = <<"k2", "r2">> /\ "k2" \in DOMAIN configured.map
    /\ result.v = "v1"

\* a test calls resetSpy or resetAccessorSpy on the spy
ResetsSpy ==
    /\ isSpyLike(target)
    /\ \E h \in ResetHelpers : Helper(h, NoInput, "undefined")

\* C20: getCallCount(spy) is the number of invocations since the spy's creation
\* or its last resetSpy; resetSpy sets it to 0, and a resetSpy right after a
\* resetSpy changes nothing (the count stays 0).
C20_CallCountSinceReset ==
    /\ [](isSpyLike(target) => getCallCount(target, "undefined").res.count = invocations)
    /\ [][ResetsSpy =>
            /\ getCallCount(target', "undefined").res.count = 0
            /\ (result.helper \in ResetHelpers => target' = target)]_vars

C20_Witness ==
    /\ result.helper = "getCallCount" /\ result.t = "return" /\ result.count = 1
    /\ configured.by = "withReturnValues" /\ configured.since = 3

\* ---------------------------------------------------------------------------
\* AutoMocker.mock
\* ---------------------------------------------------------------------------

\* how many properties an object handed to mock has at most
MaxProps == 3

\* the largest maxDepth a test constructs an AutoMocker with or passes to mock
MaxDepth == 2

\* A property value: its kind and, for an object or array, what it holds in key
\* order. "readonly" is a function under a non-writable property (spyOn throws),
\* "accessor" a property with getter or setter.
Value(kind) == [kind |-> kind, items |-> <<>>]
ObjectValue(items) == [kind |-> "object", items |-> items]
ArrayValue(items) == [kind |-> "array", items |-> items]

\* a Date: its instance property names are the methods of Date.prototype
DateValue == [kind |-> "date", items |-> <<Value("function")>>]

isUndefined(value) == value.kind = "undefined"
isFunction(value) == value.kind \in {"function", "spy", "readonly"}
isObject(value) == value.kind \in {"object", "date", "array"}
isString(value) == value.kind = "string"
isDate(value) == value.kind = "date"

\* isSpyLike(value) for a property value
isSpyLikeValue(value) == value.kind = "spy"

\* what mockValue returns for a value (res), the value's content after it
Mocked(value, items, res) == [kind |-> value.kind, items |-> items, res |-> res]

\* mockAsProperty(objectToMock, key): true for a property with getter or setter
mockAsProperty(value) == value.kind = "accessor"

RECURSIVE mockValue(_, _, _)
RECURSIVE MockKeys(_, _, _, _)
RECURSIVE MapItems(_, _, _, _)

\* objectKeys.forEach(key => { try { ... mockValue(..., depth++, maxDepth) }
\* catch { console.error(...) } }) of mockObject, from key number i on
MockKeys(props, i, depth, maxDepth) ==
    IF i > Len(props) THEN <<>>
    ELSE IF mockAsProperty(props[i])
    THEN <<Mocked(props[i], <<>>, "spied")>> \o MockKeys(props, i + 1, depth, maxDepth)
    ELSE LET r == mockValue(props[i], depth, maxDepth)
         IN  <<IF r.res = "throws" THEN Mocked(props[i], props[i].items, "failed") ELSE r>>
             \o MockKeys(props, i + 1, depth + 1, maxDepth)

\* value.map((item, i) => this.mockValue(name, value, i, depth++, maxDepth))
MapItems(items, i, depth, maxDepth) ==
    IF i > Len(items) THEN <<>>
    ELSE <<mockValue(items[i], depth, maxDepth)>> \o MapItems(items, i + 1, depth + 1, maxDepth)

\* mockObject(objectName, objectToMock, depth, maxDepth) for an object
mockObject(props, depth, maxDepth) == MockKeys(props, 1, depth, maxDepth)

mockValue(value, depth, maxDepth) ==
    IF isUndefined(value) THEN Mocked(value, value.items, "same")
    ELSE IF value.kind = "array"
    THEN IF depth < maxDepth
         THEN LET mapped == MapItems(value.items, 1, depth, maxDepth)
              IN  IF \E i \in DOMAIN mapped : mapped[i].res = "throws"
                  THEN Mocked(value, value.items, "throws")
                  ELSE Mocked(value, mapped, "mapped")
         ELSE Mocked(value, value.items, "same")
    ELSE IF isFunction(value)
    THEN IF isSpyLikeValue(value) THEN Mocked(value, value.items, "same")
         ELSE IF value.kind = "readonly" THEN Mocked(value, value.items, "throws")
         ELSE Mocked(value, value.items, "spyOn")
    ELSE IF isObject(value)
    THEN IF depth < maxDepth
         THEN Mocked(value, mockObject(value.items, depth + 1, maxDepth), "mocked")
         ELSE Mocked(value, value.items, "same")
    ELSE IF isString(value) THEN Mocked(value, value.items, "generated")
    ELSE IF isDate(value) THEN Mocked(value, value.items, "sentinel")
    ELSE Mocked(value, value.items, "same")

\* maxDepth || this.maxDepth
EffectiveDepth(arg, default) == IF arg.given /\ arg.n # 0 THEN arg.n ELSE default

\* mock(objectName, objectToMock, maxDepth)
mockAll(props, arg, default) == mockObject(props, 0, EffectiveDepth(arg, default))

\* the property values of the objects a test hands to mock
Leaves ==
    {Value("function"), Value("spy"), DateValue, Value("string"), Value("accessor"),
     Value("readonly")}
Inner == ObjectValue(<<Value("function")>>)
Nested ==
    {Inner, ObjectValue(<<Inner>>), ObjectValue(<<DateValue>>), ObjectValue(<<Inner, Inner>>),
     ArrayValue(<<Inner, Inner>>)}
Objects == UNION {[1..n -> Leaves \cup Nested] : n \in 0..MaxProps}

DepthArgs == {NoDepthArg} \cup {[given |-> TRUE, n |-> n] : n \in 0..MaxDepth}

InitObj ==
    /\ obj \in Objects
    /\ ctorDepth \in 1..MaxDepth
    /\ depthArg = NoDepthArg
    /\ mocked = NotMocked
    /\ ClassIdle
    /\ SpyIdle
    /\ PlusIdle
    /\ falsyVal = "undefined" /\ bufSize = 0 /\ buffer = <<>> /\ stopped = "no"
    /\ thrownError = "undefined" /\ subs = <<>> /\ lifetime = 0 /\ active = 0
    /\ pc = "idle" /\ rsub = 0 /\ actionCalls = 0 /\ outcome = NoOutcome

\* a test calls autoMocker.mock(name, obj) or autoMocker.mock(name, obj, maxDepth)
Mock(arg) ==
    /\ ~mocked.done
    /\ depthArg' = arg
    /\ mocked' = [done |-> TRUE, props |-> mockAll(obj, arg, ctorDepth)]
    /\ UNCHANGED <<obj, ctorDepth, readerVars, classVars, spyVars, plusVars>>

NextObj == \E arg \in DepthArgs : Mock(arg)

SpecObj == InitObj /\ [][NextObj]_vars

\* ---------------------------------------------------------------------------
\* Properties of mock
\* ---------------------------------------------------------------------------

\* spyOn(objectToMock, key): the new spy, and what a call of it returns; the
\* original function returns "original"
SpyOn == NewTarget("spy")
InvokeMocked(r) ==
    IF r.res = "spyOn" THEN Exec(SpyOn, <<>>).v ELSE "original"

\* C21: mock replaces every function property that is no spy by a spy that calls
\* through (a call returns what the original returns) and leaves a property that
\* is a spy as it is.
C21_FunctionsBecomeCallThroughSpies ==
    mocked.done =>
        \A i \in DOMAIN obj :
            /\ obj[i].kind = "function" =>
                  (mocked.props[i].res = "spyOn" /\ InvokeMocked(mocked.props[i]) = "original")
            /\ obj[i].kind = "spy" => mocked.props[i].res = "same"

\* C22: mock replaces every date property by the sentinel date, whatever maxDepth.
C22_DatesBecomeSentinel ==
    mocked.done =>
        \A i \in DOMAIN obj : obj[i].kind = "date" => mocked.props[i].res = "sentinel"

\* the sequence without its i-th element
Without(seq, i) == SubSeq(seq, 1, i - 1) \o SubSeq(seq, i + 1, Len(seq))

\* C23: a property that mock fails on is skipped and every other property comes
\* out as it would if the failing property were not there.
C23_FailureLeavesOthersAlone ==
    mocked.done =>
        \A i \in DOMAIN obj :
            mocked.props[i].res = "failed" =>
                Without(mocked.props, i) = mockAll(Without(obj, i), depthArg, ctorDepth)

\* C27: of two sibling properties that hold plain objects either both are mocked
\* recursively or both are left as they are, and they are recursed into iff their
\* nesting level (0 for the properties of obj) is below maxDepth.
C27_SiblingsTreatedAlike ==
    mocked.done =>
        \A i, j \in DOMAIN obj :
            (obj[i].kind = "object" /\ obj[j].kind = "object") =>
                /\ (mocked.props[i].res = "mocked") = (mocked.props[j].res = "mocked")
                /\ (mocked.props[i].res = "mocked") = (0 < EffectiveDepth(depthArg, ctorDepth))

\* C28: a maxDepth argument is the bound mock uses, 0 included: with maxDepth = 0
\* no object or array property is recursed into.
C28_ExplicitDepthIsUsed ==
    (mocked.done /\ depthArg.given) =>
        /\ mocked.props = mockObject(obj, 0, depthArg.n)
        /\ depthArg.n = 0 =>
              \A i \in DOMAIN obj :
                  obj[i].kind \in {"object", "array"} => mocked.props[i].res = "same"

\* ---------------------------------------------------------------------------
\* Properties of the readers, continued
\* ---------------------------------------------------------------------------

\* C29: on a stream that delivers k values and then an error, readError(stream,
\* skips) returns the error payload whenever k <= skips, also when k < skips, and
\* throws whenever k > skips.
C29_SkipIsUpperBound ==
    (Ran("readError") /\ stopped = "error") =>
        /\ (Len(buffer) <= outcome.skips) = (outcome.t = "return")
        /\ outcome.t = "return" => outcome.v = thrownError
        /\ outcome.t # "return" => outcome.t = "throw"

\* readError(stream, 1) returned the payload of a stream that failed before it
\* delivered any value
C29_Witness ==
    /\ Ran("readError") /\ outcome.t = "return" /\ outcome.skips = 1
    /\ stopped = "error" /\ Len(buffer) = 0 /\ outcome.v = thrownError

\* action() throws: the exception leaves readObservableSynchronouslyAfterAction
\* at the call, nothing after it runs
ActionThrow ==
    /\ pc = "action"
    /\ rsub \in DOMAIN subs
    /\ subs' = [subs EXCEPT ![rsub] = Forget(@)]
    /\ outcome' = Threw("readValueAfterAction", subs[rsub].skips, "${thrown by action}", "", 0)
    /\ pc' = "idle"
    /\ rsub' = 0
    /\ actionCalls' = 0
    /\ UNCHANGED <<falsyVal, bufSize, buffer, stopped, thrownError, lifetime, active>>

NextThrow ==
    \/ Next
    \/ ActionThrow /\ ReaderStep

\* the readers with actions that may throw
SpecThrow == Init /\ [][NextThrow]_vars

ActionThrew == outcome.msg = "${thrown by action}"

\* C30: when action() throws, readValueAfterAction throws and the subscription it
\* opened is finalized: no reader's subscription is open and the counter counts
\* the consumers' open subscriptions only.
C30_ThrowingActionFinalizes ==
    ActionThrew =>
        /\ outcome.t = "throw"
        /\ OpenReaders = {}
        /\ activeSubscriptionCount = Cardinality(OpenConsumers)

\* ---------------------------------------------------------------------------
\* AutoMockerPlus.withReturnNonCompletingCountedObservable
\* ---------------------------------------------------------------------------

\* the nextValue argument: a value, or "omitted" when the call leaves it out
NextValues == {"omitted"} \cup Falsy \cup Truthy

\* what a parameter that was left out holds
ArgumentValue(arg) == IF arg = "omitted" THEN "undefined" ELSE arg

\* (mutant) startWith emits nothing for an argument that was left out
StartWithSupplied(arg) == IF arg = "omitted" THEN <<>> ELSE <<arg>>

\* NEVER.pipe(startWith(nextValue)): what every subscription is sent at once;
\* nothing follows, neither a value nor a terminal signal
StartWith(arg) == <<ArgumentValue(arg)>>

NonCompletingCall(arg) ==
    [helper |-> "withReturnNonCompletingCountedObservable", value |-> arg, n |-> 0]

\* after counter = withReturnNonCompletingCountedObservable(spy, nextValue)
InitNever ==
    /\ \E arg \in NextValues :
          /\ helperCall = NonCompletingCall(arg)
          /\ buffer = StartWith(arg)
    /\ falsyVal = "undefined"
    /\ bufSize = 1
    /\ stopped = "no"
    /\ thrownError = "undefined"
    /\ subs = <<>>
    /\ lifetime = 0
    /\ active = 0
    /\ pc = "idle"
    /\ rsub = 0
    /\ actionCalls = 0
    /\ outcome = NoOutcome
    /\ subject = NoSubject /\ pushed = <<>> /\ observers = <<>>
    /\ ClassIdle
    /\ SpyIdle
    /\ ObjIdle

\* the tests subscribe to, unsubscribe from and read the stream the spy returns;
\* nothing feeds the stream
NextNever ==
    \/ ConsumerSubscribe /\ ReaderStep
    \/ \E i \in DOMAIN subs : ConsumerUnsubscribe(i) /\ ReaderStep
    \/ \E k \in 0..MaxSkips : ReadValue("stream", k) /\ ReaderStep
    \/ \E k \in 0..MaxSkips : ReadError("stream", k) /\ ReaderStep
    \/ \E k \in 0..MaxSkips : ReadCompletion("stream", k) /\ ReaderStep
    \/ \E k \in 0..MaxSkips : ReadValueAfterActionCall("stream", "fn", k) /\ ReaderStep
    \/ ActionReturn /\ ReaderStep

SpecNever == InitNever /\ [][NextNever]_vars

\* the values a new subscription is sent, and whether a terminal signal follows
Emissions == [i \in 1..Len(buffer) |-> buffer[i]]
Terminates == stopped # "no"

ValueDeficit(skips, count) ==
    Threw("readValue", skips,
          "observable did not emit (skips requested: ${skips}, total skipped emissions: ${emissionCount})",
          "", count)

\* a subscription of a test closes only when the test unsubscribes it, and the
\* counter counts every open subscription
StaysCounted ==
    /\ [](activeSubscriptionCount = Cardinality(OpenSubs))
    /\ [][\A i \in DOMAIN subs :
              (subs[i].owner = "consumer" /\ subs[i].open /\ ~subs'[i].open)
              => ConsumerUnsubscribe(i)]_vars

\* C24 (as stated): each subscription is sent the one value when a value is
\* supplied and nothing when it is omitted; the stream never completes or fails
\* and every subscription stays counted until it is unsubscribed.
C24_OneValueOrNothing ==
    /\ [](helperCall.value # "omitted" => Emissions = <<helperCall.value>>)
    /\ [](helperCall.value = "omitted" => Emissions = <<>>)
    /\ []((Ran("readValue") /\ outcome.skips = 0 /\ helperCall.value = "omitted")
             => outcome = ValueDeficit(0, 0))
    /\ [](~Terminates)
    /\ StaysCounted

\* C24: each subscription is sent exactly one value, the supplied one or
\* undefined when the value is omitted (readValue returns it, and with one skip
\* requested reports one emission); the stream never completes or fails and
\* every subscription stays counted until it is unsubscribed.
C24_OneValueAlways ==
    /\ [](Emissions = <<ArgumentValue(helperCall.value)>>)
    /\ []((Ran("readValue") /\ outcome.skips = 0)
             => outcome = Returned("readValue", 0, ArgumentValue(helperCall.value)))
    /\ []((Ran("readValue") /\ outcome.skips = 1) => outcome = ValueDeficit(1, 1))
    /\ [](~Terminates)
    /\ StaysCounted

\* with the value omitted, readValue returned undefined while a subscription of
\* the test is open and counted
C24_Witness ==
    /\ helperCall = NonCompletingCall("omitted")
    /\ outcome = Returned("readValue", 0, "undefined")
    /\ activeSubscriptionCount = 1 /\ lifetimeSubscriptionCount = 2

\* ---------------------------------------------------------------------------
\* AutoMockerPlus.withReturnSubjectForObservableProperty
\* ---------------------------------------------------------------------------

\* the largest replayBuffer argument
MaxBuffer == 2

\* how many values a test pushes on the returned subject at most
MaxPushes == 3

\* how many subscriptions a test makes on target[prop] at most
MaxObservers == 2

PushVals == {"a", "b"}
InitialValues == {"undefined", "null", "a"}

Max(a, b) == IF a > b THEN a ELSE b
Min(a, b) == IF a < b THEN a ELSE b

\* the last k elements of seq
Last(k, seq) == SubSeq(seq, Len(seq) - Min(k, Len(seq)) + 1, Len(seq))

\* (mutant) a replay subject that keeps exactly bufferSize values, none for 0
NewReplaySubjectExact(bufferSize) == [bufferSize |-> bufferSize, buffer |-> <<>>]

\* new ReplaySubject(bufferSize): the subject keeps Math.max(1, bufferSize) values
NewReplaySubject(bufferSize) == [bufferSize |-> Max(1, bufferSize), buffer |-> <<>>]

\* subject.next(v) on the buffer
SubjectNext(subj, v) == [subj EXCEPT !.buffer = Last(subj.bufferSize, Append(@, v))]

\* if (initialValue !== undefined) subject.next(initialValue)
InitialPush(subj, initialValue) ==
    IF initialValue # "undefined" THEN SubjectNext(subj, initialValue) ELSE subj
InitialPushed(initialValue) ==
    IF initialValue # "undefined" THEN <<initialValue>> ELSE <<>>

PropertyCall(initialValue, n) ==
    [helper |-> "withReturnSubjectForObservableProperty", value |-> initialValue, n |-> n]

\* after subject = withReturnSubjectForObservableProperty(target, prop, initialValue, n)
InitProperty ==
    /\ \E initialValue \in InitialValues, n \in 0..MaxBuffer :
          /\ helperCall = PropertyCall(initialValue, n)
          /\ subject = InitialPush(NewReplaySubject(n), initialValue)
          /\ pushed = InitialPushed(initialValue)
    /\ observers = <<>>
    /\ ClassIdle
    /\ SpyIdle
    /\ ObjIdle
    /\ falsyVal = "undefined" /\ bufSize = 0 /\ buffer = <<>> /\ stopped = "no"
    /\ thrownError = "undefined" /\ subs = <<>> /\ lifetime = 0 /\ active = 0
    /\ pc = "idle" /\ rsub = 0 /\ actionCalls = 0 /\ outcome = NoOutcome

\* a test calls subject.next(v): the buffer takes it and every subscriber gets it
Push(v) ==
    /\ Len(pushed) < MaxPushes
    /\ subject' = SubjectNext(subject, v)
    /\ pushed' = Append(pushed, v)
    /\ observers' = [i \in DOMAIN observers |->
                        [observers[i] EXCEPT !.received = Append(@, v)]]
    /\ UNCHANGED <<helperCall, readerVars, classVars, spyVars, objVars>>

\* a test subscribes to target[prop]: the subscriber is sent the buffer at once
SubscribeProperty ==
    /\ Len(observers) < MaxObservers
    /\ observers' = Append(observers, [at |-> Len(pushed), received |-> subject.buffer])
    /\ UNCHANGED <<helperCall, subject, pushed, readerVars, classVars, spyVars, objVars>>

NextProperty ==
    \/ \E v \in PushVals : Push(v)
    \/ SubscribeProperty

SpecProperty == InitProperty /\ [][NextProperty]_vars

\* what a subscriber that came after `at` pushes has received when the subject
\* replays `size` values: the last of the first `at` pushes, then every later one
Expected(size, at) ==
    Last(size, SubSeq(pushed, 1, at)) \o SubSeq(pushed, at + 1, Len(pushed))

\* a defined initialValue is the first push
InitialCounts ==
    helperCall.value # "undefined"
    => (Len(pushed) >= 1 /\ pushed[1] = helperCall.value)

\* C25 (as stated): a new subscriber is sent the last min(n, pushes so far)
\* values in push order, a defined initialValue counting as the first push, and
\* every later push once.
C25_ReplaysLastN ==
    /\ InitialCounts
    /\ \A i \in DOMAIN observers :
          observers[i].received = Expected(helperCall.n, observers[i].at)

\* C25: a new subscriber is sent the last min(max(n, 1), pushes so far) values in
\* push order, a defined initialValue counting as the first push, and every later
\* push once; it is sent nothing if nothing was pushed.
C25_ReplaysLastNAtLeastOne ==
    /\ InitialCounts
    /\ \A i \in DOMAIN observers :
          observers[i].received = Expected(Max(helperCall.n, 1), observers[i].at)

\* with n = 2 and an initial value, a subscriber that came after the second push
\* was sent both values and then the third push
C25_Witness ==
    /\ helperCall = PropertyCall("a", 2)
    /\ Len(pushed) = 3
    /\ \E i \in DOMAIN observers :
          observers[i].at = 2 /\ observers[i].received = pushed

\* ---------------------------------------------------------------------------
\* Properties of withReturnObservables
\* ---------------------------------------------------------------------------

\* the stream is the normalized form of what the test handed over: the same
\* object for a stream, a stream that sends the value once and completes otherwise
NormalizedFrom(stream, handed) ==
    IF handed \in StreamObjects THEN stream = handed
    ELSE IsOf(stream) /\ OfEmits(stream) = <<handed>>

\* the k-th call returned what it has to after withReturnObservables(spy, values)
KthStream(values, k) ==
    IF k < Len(values) THEN NormalizedFrom(result.v, values[k + 1])
    ELSE result.v = "undefined"

\* withReturnObservables returned the normalized sequence of what it was handed
ReturnsNormalized ==
    (result.helper = "withReturnObservables" /\ result.t = "return") =>
        /\ Len(result.list) = Len(configured.values)
        /\ \A i \in DOMAIN result.list :
              NormalizedFrom(result.list[i], configured.values[i])
        /\ target.and = ReturnValuesPlan(result.list)

\* C26 (as stated): after withReturnObservables(spy, values) the k-th call of the
\* spy returns the k-th normalized stream and undefined beyond the length of
\* values, and the helper returns the normalized sequence.
C26_KthCallReturnsKthStream ==
    /\ ReturnsNormalized
    /\ (result.helper = "call" /\ configured.by = "withReturnObservables") =>
          (result.t = "return" /\ KthStream(configured.values, configured.since - 1))

\* C26: the same, on a spy for which no value is registered for an argument list
\* with withReturnForArguments.
C26_KthCallReturnsKthStreamWithoutArgs ==
    /\ ReturnsNormalized
    /\ (/\ result.helper = "call" /\ configured.by = "withReturnObservables"
        /\ ~target.withArgs.on) =>
          (result.t = "return" /\ KthStream(configured.values, configured.since - 1))

\* after withReturnObservables(spy, [s$, v0]) the second call returned of(v0)
C26_Witness ==
    /\ result.helper = "call" /\ configured.by = "withReturnObservables"
    /\ ~target.withArgs.on
    /\ configured.values = <<"s$", "v0">> /\ configured.since = 2
    /\ result.v = "of(v0)"

====
